---- MODULE Spec2Model ----
(***************************************************************************)
(* Doc-Analyzer: the two-phase table discovery / cross-page merge pipeline *)
(* (backend/services/background_table_extractor.py), the document status   *)
(* record it writes (backend/models/pdf.py, backend/endpoints/pdf.py) and  *)
(* the rate-limited client pool (ApiKeyManager in                          *)
(* backend/services/pdf_service.py).                                       *)
(*                                                                         *)
(* Four specifications share the variables:                                *)
(*   SpecPool    the ApiKeyManager used by concurrent workers              *)
(*   SpecPhase2  _phase2_bulletproof_sequential_merging on any ordered     *)
(*               list of page results                                      *)
(*   Spec        the whole pipeline: launches, Phase 1, Phase 2, status    *)
(*   SpecRun     one upload and the run it starts, no forced extraction    *)
(***************************************************************************)
EXTENDS Integers, Sequences, FiniteSets, TLC

\* ------------------------------------------------------------------ bounds
NumKeys == 2
NumWorkers == 3
MaxClock == 3
\* Phase 2 alone: page numbers of the ordered page list it is given
MaxPage == 4
\* Phase 2 alone: entries of the ordered page list
MaxEntries == 3
\* storage (insert / save) failures injected in one behaviour
MaxFaults == 1
\* pipeline runs launched for the document
MaxRuns == 2
\* pages of the document (page_count)
MaxPages == 3
\* runs overlap in time only for documents of at most this many pages
OverlapPages == 1

\* ------------------------------------------------------- program constants
\* request_interval = 0.2 s; the clock of the model counts tenths of a second
RequestInterval == 2
\* asyncio.Semaphore(min(30, len(self.api_keys)))
HardCap == 30

None == 0
Keys == 1..NumKeys
Workers == 1..NumWorkers

VARIABLES
    \* ---- ApiKeyManager
    key_owners,          \* _key_owners: key -> owning worker, or None
    thread_assignments,  \* _thread_assignments: worker -> key, None when absent
    next_key_index,      \* _next_key_index
    last_request_time,   \* last_request_time: key -> time of the last request
    clock,               \* time.time()
    current_key,         \* each worker's local current_key (the key it was handed)
    \* ---- PDFProcessor._extract_and_merge_tables, one call
    worker_pc,           \* each worker thread's position in _extract_tables_from_page,
                         \* or how its latest call ended
    started,             \* page images whose extraction has started
    scope,               \* the "with ApiKeyManager(...)" block: "open" or "closed"
    \* ---- storage
    db,                  \* the persisted PDF document (what PDF.get returns)
    rows,                \* the persisted Table rows, in the order they were written
    faults,              \* storage failures injected so far
    page_count,          \* page_count of the PDF document
    upload_pc,           \* the upload handler: "new", "processing", "returned"
                         \* or "rejected"
    \* ---- one BackgroundTableExtractor.extract_tables_for_pdf call per run
    run_pc,              \* the await the run is suspended at
    pdf_record,          \* the run's in-memory copy of the PDF document
    page_responses,      \* List[PageResponse] of the run
    loop_i,              \* Phase 2: index i of the page loop (1-based)
    loop_j,              \* Phase 2: index j of the STEP 1 loop (1-based)
    total_inserted,      \* Phase 2: total_inserted
    tasks,               \* Phase 1: the extraction task of each page
    results,             \* Phase 1: what each finished task returned
    \* ---- history
    noop_release,        \* a release_client call has found nothing to release
    extracted,           \* the page list as Phase 1 returned it, before Phase 2
    event_page,          \* the page of the latest Phase 2 side effect of each run
    failed_page,         \* the page at which a Phase 2 insert of the run raised
                         \* last, 0 when none has
    window,              \* per key, the external requests the page extractions
    task_client,         \* per run and page, the key of the client the call in flight was sent with
                         \* issued with it less than request_interval ago:
                         \* "none", "one" or "several"
    oracle_log           \* merge decisions taken: run, pages, both tables, whether
                         \* the reply was the token MERGE, and the result

poolVars == <<key_owners, thread_assignments, next_key_index, last_request_time,
              clock, current_key, noop_release>>

extractVars == <<worker_pc, started, scope>>

storeVars == <<db, rows, faults, page_count, upload_pc>>

runVars == <<run_pc, pdf_record, page_responses, loop_i, loop_j, total_inserted,
             tasks, results, extracted, event_page, failed_page, window, task_client,
             oracle_log>>

vars == <<key_owners, thread_assignments, next_key_index, last_request_time,
          clock, current_key, noop_release, worker_pc, started, scope, db, rows, faults, page_count, upload_pc, run_pc,
          pdf_record, page_responses, loop_i, loop_j, total_inserted, tasks,
          results, extracted, event_page, failed_page, window, task_client, oracle_log>>

\* ---------------------------------------------------------------- helpers
Runs == 1..MaxRuns
Pages == 1..MaxPages

Last(seq) == seq[Len(seq)]

\* ------------------------------------------------ markdown lines and replies
\* The lines a model response is made of; what the code asks of a line is
\* whether it holds '|', '---' or '--', and its cells.
HDR == "| h1 | h2 |"
SEP == "|----|----|"
ROW_A == "| a | b |"
ROW_B == "| c | d |"
ROW_DASH == "| -- | e |"
NOTE == "see next page"

\* '|' in line
HasPipe(line) == line \in {HDR, SEP, ROW_A, ROW_B, ROW_DASH}
\* '---' in line
HasDash3(line) == line = SEP
\* '--' in line
HasDash2(line) == line \in {SEP, ROW_DASH}
\* [h.strip() for h in line.split('|')[1:-1]]
SplitCells(line) ==
    CASE line = HDR -> <<"h1", "h2">>
      [] line = ROW_A -> <<"a", "b">>
      [] line = ROW_B -> <<"c", "d">>
      [] line = ROW_DASH -> <<"--", "e">>
      [] line = SEP -> <<"----", "----">>
      [] OTHER -> <<>>

\* title_line.split(':', 1)[1].strip().rstrip('}') lowered, ' ' and '-' to '_'
TitleOf(title_line) ==
    CASE title_line = "{Table 1: Sales Q1}" -> "sales_q1"
      [] title_line = "{Table 2: Unit-Costs}" -> "unit_costs"
      [] title_line = "{Table 1: Notes}" -> "notes"
      [] OTHER -> "unknown_table"

NoTable == [table_id |-> 0]

\* BackgroundTableExtractor._create_table_from_content. parts is history: the
\* (page, table_id) fragments the table was made of.
CreateTableFromContent(title_line, content, table_id, page_num) ==
    LET pipeRows == SelectSeq(content, LAMBDA l : HasPipe(l) /\ ~HasDash3(l))
    IN IF pipeRows = <<>> \/ SplitCells(pipeRows[1]) = <<>>
       THEN NoTable
       ELSE [table_id |-> table_id,
             title |-> TitleOf(title_line),
             markdown_content |-> content,
             column_headers |-> SplitCells(pipeRows[1]),
             row_count |-> Len(pipeRows) - 1,
             column_count |-> Len(SplitCells(pipeRows[1])),
             merge_start_page |-> None,
             parts |-> << <<page_num, table_id>> >>]

\* the loop of _parse_page_response over the blocks of a response: table_id
\* advances only when a block yields a table
RECURSIVE ParseBlocks(_, _, _, _)
ParseBlocks(blocks, k, table_id, page_num) ==
    IF k > Len(blocks) THEN <<>>
    ELSE LET t == CreateTableFromContent(blocks[k].title_line, blocks[k].content,
                                         table_id, page_num)
         IN IF t = NoTable
            THEN ParseBlocks(blocks, k + 1, table_id, page_num)
            ELSE <<t>> \o ParseBlocks(blocks, k + 1, table_id + 1, page_num)

\* BackgroundTableExtractor._parse_page_response; "EMPTY" is the response
\* without blocks
ParsePageResponse(response, page_num) ==
    [page_number |-> page_num, tables |-> ParseBlocks(response, 1, 1, page_num)]

\* PageResponse(page_num, "EMPTY", [])
EmptyPage(page_num) == [page_number |-> page_num, tables |-> <<>>]

BlockSales == [title_line |-> "{Table 1: Sales Q1}", content |-> <<HDR, SEP, ROW_A>>]
BlockCosts == [title_line |-> "{Table 2: Unit-Costs}",
               content |-> <<HDR, SEP, ROW_A, ROW_B>>]
BlockNotes == [title_line |-> "{Table 1: Notes}", content |-> <<NOTE>>]

\* the responses the extraction model gives for a page
Responses == { <<>>, <<BlockSales>>, <<BlockCosts, BlockSales>>,
               <<BlockNotes, BlockCosts>> }

\* the data rows of table2 in _perfect_merge_tables: lines without '|' are
\* skipped, then the first line (header), then the first later line with
\* '---' or '--' (separator)
RECURSIVE Table2DataRows(_, _, _, _)
Table2DataRows(lines, k, found_header, found_separator) ==
    IF k > Len(lines) THEN <<>>
    ELSE IF ~HasPipe(lines[k])
         THEN Table2DataRows(lines, k + 1, found_header, found_separator)
    ELSE IF ~found_header
         THEN Table2DataRows(lines, k + 1, TRUE, found_separator)
    ELSE IF ~found_separator /\ (HasDash3(lines[k]) \/ HasDash2(lines[k]))
         THEN Table2DataRows(lines, k + 1, found_header, TRUE)
    ELSE <<lines[k]>> \o Table2DataRows(lines, k + 1, found_header, found_separator)

\* a merge that takes the current page as the start of every merged table
MergeForgetsOrigin(table1, table2, current_page) ==
    [table_id |-> table1.table_id,
     title |-> table1.title,
     markdown_content |-> table1.markdown_content
                            \o Table2DataRows(table2.markdown_content, 1, FALSE, FALSE),
     column_headers |-> table1.column_headers,
     row_count |-> table1.row_count + table2.row_count,
     column_count |-> table1.column_count,
     merge_start_page |-> current_page,
     parts |-> table1.parts \o table2.parts]

\* BackgroundTableExtractor._perfect_merge_tables
PerfectMergeTables(table1, table2, current_page) ==
    [table_id |-> table1.table_id,
     title |-> table1.title,
     markdown_content |-> table1.markdown_content
                            \o Table2DataRows(table2.markdown_content, 1, FALSE, FALSE),
     column_headers |-> table1.column_headers,
     row_count |-> table1.row_count + table2.row_count,
     column_count |-> table1.column_count,
     merge_start_page |-> IF table1.merge_start_page # None
                          THEN table1.merge_start_page
                          ELSE current_page,
     parts |-> table1.parts \o table2.parts]

\* What the merge-decision call gives back: a reply text (as its words), an
\* exception (error or the 25 s timeout), or a response without text.
ReplyMerge == [kind |-> "text", text |-> <<"MERGE">>]
ReplySeparate == [kind |-> "text", text |-> <<"SEPARATE">>]
ReplyLower == [kind |-> "text", text |-> <<" ", "merge", " ">>]
ReplyDoNotMerge == [kind |-> "text", text |-> <<"DO", " ", "NOT", " ", "MERGE">>]
ReplyRaise == [kind |-> "raise", text |-> <<>>]
ReplyNoText == [kind |-> "none", text |-> <<>>]
OracleReplies == {ReplyMerge, ReplySeparate, ReplyLower, ReplyDoNotMerge,
                  ReplyRaise, ReplyNoText}

\* str.upper, word by word
Upper(words) ==
    [k \in 1..Len(words) |-> IF words[k] = "merge" THEN "MERGE" ELSE words[k]]

\* str.strip
RECURSIVE Strip(_)
Strip(words) ==
    IF words = <<>> THEN words
    ELSE IF Head(words) = " " THEN Strip(Tail(words))
    ELSE IF Last(words) = " " THEN Strip(SubSeq(words, 1, Len(words) - 1))
    ELSE words

\* "MERGE" in decision
ContainsMerge(words) == \E k \in 1..Len(words) : words[k] = "MERGE"

\* history: the reply, stripped and upper-cased, is the decision token MERGE
IsMergeToken(reply) ==
    reply.kind = "text" /\ Upper(Strip(reply.text)) = <<"MERGE">>

\* BackgroundTableExtractor._bulletproof_merge_decision
BulletproofMergeDecision(table1, table2, current_page, reply) ==
    IF reply.kind = "text" /\ ContainsMerge(Upper(Strip(reply.text)))
    THEN [merged |-> TRUE, table |-> PerfectMergeTables(table1, table2, current_page)]
    ELSE [merged |-> FALSE, table |-> NoTable]

\* the Table document built by _insert_table_to_database; run is history
TableRecord(r, table, start_page, end_page) ==
    [run |-> r,
     start_page |-> IF table.merge_start_page # None
                    THEN table.merge_start_page
                    ELSE start_page,
     end_page |-> end_page,
     table_number |-> table.table_id,
     table_title |-> table.title,
     markdown_content |-> table.markdown_content,
     column_count |-> table.column_count,
     row_count |-> table.row_count,
     parts |-> table.parts]

\* a Phase 2 that takes the next list entry whatever its page number
NextPageAnyEntry(resps, i) ==
    IF i + 1 <= Len(resps) THEN i + 1 ELSE None

\* Phase 2, "Get next page (immediate next only)": the index of the next list
\* entry when its page number is page_num + 1, else None
NextPage(resps, i) ==
    IF i + 1 <= Len(resps) /\ resps[i + 1].page_number = resps[i].page_number + 1
    THEN i + 1
    ELSE None

\* if next_page and next_page.tables
HasMergeCandidate(resps, i) ==
    NextPage(resps, i) # None /\ resps[NextPage(resps, i)].tables # <<>>

\* a Phase 2 that puts the merged table in front of the tables of the next
\* page and keeps the first of them
InsertBeforeFirstOfNext(resps, i, merged_table) ==
    [resps EXCEPT ![NextPage(resps, i)].tables = <<merged_table>> \o @]

\* a Phase 2 that puts the merged table in the last slot of the next page
ReplaceLastOfNext(resps, i, merged_table) ==
    [resps EXCEPT ![NextPage(resps, i)].tables[Len(resps[NextPage(resps, i)].tables)]
                      = merged_table]

\* next_page.tables[0] = merged_table
ReplaceFirstOfNext(resps, i, merged_table) ==
    [resps EXCEPT ![NextPage(resps, i)].tables[1] = merged_table]

\* the page loop skips pages without tables (if not tables: continue)
RECURSIVE SkipEmpty(_, _)
SkipEmpty(resps, i) ==
    IF i > Len(resps) THEN i
    ELSE IF resps[i].tables = <<>> THEN SkipEmpty(resps, i + 1)
    ELSE i

\* a Phase 2 that never asks for a merge decision
PcAlwaysInsertLast(resps, i) == "p2_last"

\* where the run is suspended next once the loop is at index i: the first
\* insert of STEP 1, the merge decision, the insert of the last table, or
\* after the loop, the completion save
PcAfterStep1(resps, i) ==
    IF HasMergeCandidate(resps, i) THEN "p2_decide" ELSE "p2_last"

PcAtPage(resps, i) ==
    IF i > Len(resps) THEN "complete"
    ELSE IF Len(resps[i].tables) > 1 THEN "p2_step1"
    ELSE PcAfterStep1(resps, i)

\* --------------------------------------------------------- ApiKeyManager
\* ApiKeyManager.__init__
PoolInit ==
    /\ key_owners = [k \in Keys |-> None]
    /\ thread_assignments = [t \in Workers |-> None]
    /\ next_key_index = 0
    /\ last_request_time = [k \in Keys |-> 0]
    /\ clock = RequestInterval
    /\ current_key = [t \in Workers |-> None]
    /\ noop_release = FALSE
    /\ worker_pc = [t \in Workers |-> "idle"]
    /\ started = 0
    /\ scope = "open"

\* min(self.api_keys, key=lambda k: self.last_request_time[k]): the first minimum
OldestKey ==
    CHOOSE k \in Keys :
        /\ \A j \in Keys : last_request_time[k] <= last_request_time[j]
        /\ \A j \in Keys : last_request_time[j] = last_request_time[k] => k <= j

UsesRoundRobin ==
    /\ \A k \in Keys : key_owners[k] # None
    /\ clock - last_request_time[OldestKey] < RequestInterval

\* a selection that goes to round-robin as soon as no key is unowned
FindBestSkipsOldest ==
    IF \E k \in Keys : key_owners[k] = None
    THEN CHOOSE k \in Keys :
            /\ key_owners[k] = None
            /\ \A j \in Keys : key_owners[j] = None => k <= j
    ELSE (next_key_index % NumKeys) + 1

\* ApiKeyManager._find_best_available_key
FindBestAvailableKey ==
    IF \E k \in Keys : key_owners[k] = None
    THEN CHOOSE k \in Keys :
            /\ key_owners[k] = None
            /\ \A j \in Keys : key_owners[j] = None => k <= j
    ELSE IF clock - last_request_time[OldestKey] < RequestInterval
         THEN (next_key_index % NumKeys) + 1
         ELSE OldestKey

\* a get_client that hands a key over and leaves the previous owner's
\* assignment in place
get_client_keeps_assignment(t) ==
    /\ IF /\ thread_assignments[t] # None
          /\ key_owners[thread_assignments[t]] = t
       THEN /\ current_key' = [current_key EXCEPT ![t] = thread_assignments[t]]
            /\ UNCHANGED <<key_owners, thread_assignments, next_key_index>>
       ELSE LET best == FindBestAvailableKey
            IN /\ thread_assignments' = [thread_assignments EXCEPT ![t] = best]
               /\ key_owners' = [key_owners EXCEPT ![best] = t]
               /\ next_key_index' = IF UsesRoundRobin
                                    THEN (next_key_index + 1) % NumKeys
                                    ELSE next_key_index
               /\ current_key' = [current_key EXCEPT ![t] = best]
    /\ UNCHANGED <<last_request_time, clock, noop_release>>

\* ApiKeyManager.get_client(thread_id); the caller keeps the key in current_key
get_client(t) ==
    /\ IF /\ thread_assignments[t] # None
          /\ key_owners[thread_assignments[t]] = t
       THEN /\ current_key' = [current_key EXCEPT ![t] = thread_assignments[t]]
            /\ UNCHANGED <<key_owners, thread_assignments, next_key_index>>
       ELSE LET best == FindBestAvailableKey
                old == key_owners[best]
                cleaned == [w \in Workers |->
                              IF w = t \/ w = old THEN None
                              ELSE thread_assignments[w]]
            IN /\ thread_assignments' = [cleaned EXCEPT ![t] = best]
               /\ key_owners' = [key_owners EXCEPT ![best] = t]
               /\ next_key_index' = IF UsesRoundRobin
                                    THEN (next_key_index + 1) % NumKeys
                                    ELSE next_key_index
               /\ current_key' = [current_key EXCEPT ![t] = best]
    /\ UNCHANGED <<last_request_time, clock, noop_release>>

\* a get_client call on its own
GetClient(t) == get_client(t) /\ UNCHANGED <<extractVars, storeVars, runVars>>

\* the ownership test of release_client
OwnsKey(k, t) ==
    /\ thread_assignments[t] # None
    /\ thread_assignments[t] = k
    /\ key_owners[k] = t

\* ApiKeyManager.release_client(key, thread_id)
release_client(k, t) ==
    /\ IF OwnsKey(k, t)
       THEN /\ thread_assignments' = [thread_assignments EXCEPT ![t] = None]
            /\ key_owners' = [key_owners EXCEPT ![k] = None]
       ELSE UNCHANGED <<key_owners, thread_assignments>>
    /\ current_key' = IF current_key[t] = k
                      THEN [current_key EXCEPT ![t] = None]
                      ELSE current_key
    /\ noop_release' = (noop_release \/ ~OwnsKey(k, t))
    /\ UNCHANGED <<next_key_index, last_request_time, clock>>

\* a release_client call on its own
ReleaseClient(k, t) == release_client(k, t) /\ UNCHANGED <<extractVars, storeVars, runVars>>

\* a force_release_all that clears the assignments and leaves the owners
ForceReleaseAssignmentsOnly ==
    /\ thread_assignments' = [t \in Workers |-> None]
    /\ UNCHANGED <<key_owners, next_key_index, last_request_time, clock, current_key,
                   noop_release>>

\* ApiKeyManager.force_release_all
force_release_all ==
    /\ thread_assignments' = [t \in Workers |-> None]
    /\ key_owners' = [k \in Keys |-> None]
    /\ UNCHANGED <<next_key_index, last_request_time, clock, current_key,
                   noop_release>>

\* ApiKeyManager.get_stats
get_stats ==
    LET assigned_count == Cardinality({k \in Keys : key_owners[k] # None})
    IN [total_keys     |-> NumKeys,
        assigned_keys  |-> assigned_count,
        available_keys |-> NumKeys - assigned_count,
        active_threads |-> Cardinality({t \in Workers : thread_assignments[t] # None})]

\* a force_release_all call on its own
ForceReleaseAll == force_release_all /\ UNCHANGED <<extractVars, storeVars, runVars>>

\* ApiKeyManager.update_request_time(key), and the caller's own
\* key_manager.last_request_time[current_key] = time.time()
update_request_time(t) ==
    /\ current_key[t] # None
    /\ last_request_time' = [last_request_time EXCEPT ![current_key[t]] = clock]
    /\ UNCHANGED <<key_owners, thread_assignments, next_key_index, clock,
                   current_key, noop_release>>

\* the write of a last-request time on its own
UpdateRequestTime(t) == update_request_time(t) /\ UNCHANGED <<extractVars, storeVars, runVars>>

\* time passes
Tick ==
    /\ clock < MaxClock
    /\ clock' = clock + 1
    /\ UNCHANGED <<key_owners, thread_assignments, next_key_index,
                   last_request_time, current_key, noop_release>>
    /\ UNCHANGED <<extractVars, storeVars, runVars>>

PoolNext ==
    \/ \E t \in Workers : GetClient(t)
    \/ \E k \in Keys, t \in Workers : ReleaseClient(k, t)
    \/ ForceReleaseAll
    \/ \E t \in Workers : UpdateRequestTime(t)
    \/ Tick

\* ------------------------------------------------- storage and documents
\* background_error: Optional[str] = None, among the strings the field takes
NoError == "<None>"

\* PDF(...) as models/pdf.py declares it, after the upload stored the file
NewDocument(status) ==
    [processing_status |-> status,
     tables_processed |-> 0,
     total_tables_found |-> 0,
     background_error |-> NoError]

\* an insert or save either succeeds or raises; at most MaxFaults raise
StorageOutcomes == IF faults < MaxFaults THEN {TRUE, FALSE} ELSE {TRUE}

\* one more request in the window of a key
Issue(w, k) == [w EXCEPT ![k] = IF @ = "none" THEN "one" ELSE "several"]

\* the windows after at least request_interval without a request
NoRequests == [k \in Keys |-> "none"]

\* no call of a page extraction is in flight
NoClients == [r \in Runs |-> [p \in Pages |-> None]]

NoRun == [r \in Runs |-> "idle"]

\* the run is in the page loop of Phase 2
InPhase2(r) == run_pc[r] \in {"p2_step1", "p2_decide", "p2_last", "p2_progress"}

StoreIdle ==
    /\ db = NewDocument("uploaded")
    /\ rows = <<>>
    /\ faults = 0
    /\ page_count = 0
    /\ upload_pc = "new"

RunsIdle ==
    /\ run_pc = NoRun
    /\ pdf_record = [r \in Runs |-> NewDocument("uploaded")]
    /\ page_responses = [r \in Runs |-> <<>>]
    /\ loop_i = [r \in Runs |-> 1]
    /\ loop_j = [r \in Runs |-> 1]
    /\ total_inserted = [r \in Runs |-> 0]
    /\ tasks = [r \in Runs |-> [p \in Pages |-> "none"]]
    /\ results = [r \in Runs |-> [p \in Pages |-> EmptyPage(p)]]
    /\ extracted = [r \in Runs |-> <<>>]
    /\ oracle_log = <<>>
    /\ event_page = [r \in Runs |-> 0]
    /\ failed_page = [r \in Runs |-> 0]
    /\ window = NoRequests
    /\ task_client = NoClients

InitPool == PoolInit /\ StoreIdle /\ RunsIdle

SpecPool == InitPool /\ [][PoolNext]_vars

\* ------------------------- PDFProcessor._extract_and_merge_tables, one call
\* min(len(self.api_keys), 10, len(image_files)): the hard cap of the semaphore
MaxParallel == 10

\* the threads that run extractions
NumThreads == 2
Threads == 1..NumThreads

\* the positions within _extract_tables_from_page
InCall == {"acquired", "calling"}

\* how a call of _extract_tables_from_page ends: tables parsed, no response
\* text, json.JSONDecodeError, any other exception, image not opened
Returned == {"tables", "no_response", "parse_error", "exception", "no_image"}

\* the endings that went through get_client
ReturnedWithKey == Returned \ {"no_image"}

InFlightWorkers == Cardinality({t \in Workers : worker_pc[t] \in InCall})

\* max_parallel, the permits of the semaphore of extract_with_semaphore
MaxParallelWorkers ==
    LET caps == {NumKeys, MaxParallel, page_count}
    IN CHOOSE m \in caps : \A c \in caps : m <= c

\* a thread enters extract_with_semaphore for the next page image
CanStart(t) ==
    /\ scope = "open"
    /\ worker_pc[t] \notin InCall
    /\ started < page_count
    /\ InFlightWorkers < MaxParallelWorkers

\* _extract_tables_from_page: Image.open raises, [] is returned before any
\* key is asked for
ExtractNoImage(t) ==
    /\ CanStart(t)
    /\ worker_pc' = [worker_pc EXCEPT ![t] = "no_image"]
    /\ started' = started + 1
    /\ UNCHANGED <<poolVars, scope, storeVars, runVars>>

\* _extract_tables_from_page: the image opens, key_manager.get_client(thread_id)
ExtractGetClient(t) ==
    /\ CanStart(t)
    /\ get_client(t)
    /\ worker_pc' = [worker_pc EXCEPT ![t] = "acquired"]
    /\ started' = started + 1
    /\ UNCHANGED <<scope, storeVars, runVars>>

\* _extract_tables_from_page: the rate limit; time.sleep lasts until
\* request_interval has passed since the key's last request, then
\* key_manager.last_request_time[current_key] = time.time() and the call to
\* generate_content starts
ExtractRateLimit(t) ==
    /\ worker_pc[t] = "acquired"
    /\ clock - last_request_time[current_key[t]] >= RequestInterval
    /\ update_request_time(t)
    /\ worker_pc' = [worker_pc EXCEPT ![t] = "calling"]
    /\ UNCHANGED <<started, scope, storeVars, runVars>>

\* the finally clause of _extract_tables_from_page
FinallyRelease(t) == release_client(current_key[t], t)

\* the ending with the finally clause left out after an exception
ExtractEndsSkipping(t, outcome) ==
    /\ worker_pc' = [worker_pc EXCEPT ![t] = outcome]
    /\ IF outcome = "exception"
       THEN UNCHANGED <<key_owners, thread_assignments, next_key_index,
                        last_request_time, clock, current_key, noop_release>>
       ELSE FinallyRelease(t)
    /\ UNCHANGED <<started, scope, storeVars, runVars>>

\* the ending of the call in the try block: the outcome is returned (an
\* exception is caught and [] returned) and the finally clause runs
ExtractEnds(t, outcome) ==
    /\ worker_pc' = [worker_pc EXCEPT ![t] = outcome]
    /\ FinallyRelease(t)
    /\ UNCHANGED <<started, scope, storeVars, runVars>>

\* _extract_tables_from_page: generate_content returns or raises
ExtractCallReturns(t) ==
    /\ worker_pc[t] = "calling"
    /\ \E outcome \in ReturnedWithKey : ExtractEnds(t, outcome)

\* _extract_tables_from_page: an exception before the call (in the sleep)
ExtractRaises(t) ==
    /\ worker_pc[t] = "acquired"
    /\ ExtractEnds(t, "exception")

\* ApiKeyManager.__exit__: the with block of _extract_and_merge_tables is
\* left, after the gather or by an exception in the thread that entered it
\* while extractions are in their calls
ScopeExit ==
    /\ scope = "open"
    /\ scope' = "closed"
    /\ force_release_all
    /\ UNCHANGED <<worker_pc, started, storeVars, runVars>>

InitExtract ==
    /\ PoolInit
    /\ db = NewDocument("processing")
    /\ rows = <<>>
    /\ faults = 0
    /\ page_count \in 1..MaxPages
    /\ upload_pc = "processing"
    /\ RunsIdle

ExtractNext ==
    \/ \E t \in Threads : ExtractNoImage(t)
    \/ \E t \in Threads : ExtractGetClient(t)
    \/ \E t \in Threads : ExtractRateLimit(t)
    \/ \E t \in Threads : ExtractCallReturns(t)
    \/ \E t \in Threads : ExtractRaises(t)
    \/ ScopeExit
    \/ Tick

SpecExtract == InitExtract /\ [][ExtractNext]_vars


\* ------------------------- Phase 2: _phase2_bulletproof_sequential_merging
\* the loop goes on with the page at index i (continue, or the end of the body)
GoToPage(r, resps, i) ==
    /\ loop_i' = [loop_i EXCEPT ![r] = SkipEmpty(resps, i)]
    /\ loop_j' = [loop_j EXCEPT ![r] = 1]
    /\ run_pc' = [run_pc EXCEPT ![r] = PcAtPage(resps, SkipEmpty(resps, i))]

\* an exception that leaves the page loop and ends Phase 2
AbortPhase2(r, resps, i) ==
    /\ run_pc' = [run_pc EXCEPT ![r] = "failing"]
    /\ UNCHANGED <<loop_i, loop_j>>

\* except Exception: continue, the loop goes on with the next page
ContinueWithNextPage(r, resps, i) == GoToPage(r, resps, i + 1)

\* STEP 1: await self._insert_table_to_database(tables[j]) for a table that is
\* not the last of its page; a raised insert ends the page (except: continue)
P2InsertStep1(r) ==
    /\ run_pc[r] = "p2_step1"
    /\ event_page' = [event_page EXCEPT ![r] = page_responses[r][loop_i[r]].page_number]
    /\ LET resps == page_responses[r]
           i == loop_i[r]
           j == loop_j[r]
           page == resps[i]
       IN \E ok \in StorageOutcomes :
            IF ok
            THEN /\ rows' = Append(rows, TableRecord(r, page.tables[j],
                                          page.page_number, page.page_number))
                 /\ total_inserted' = [total_inserted EXCEPT ![r] = @ + 1]
                 /\ loop_j' = [loop_j EXCEPT ![r] = j + 1]
                 /\ run_pc' = [run_pc EXCEPT ![r] =
                                 IF j + 1 < Len(page.tables) THEN "p2_step1"
                                 ELSE PcAfterStep1(resps, i)]
                 /\ UNCHANGED <<failed_page, faults, loop_i>>
            ELSE /\ faults' = faults + 1
                 /\ failed_page' = [failed_page EXCEPT ![r] = page.page_number]
                 /\ ContinueWithNextPage(r, resps, i)
                 /\ UNCHANGED <<rows, total_inserted>>
    /\ UNCHANGED <<db, page_count, upload_pc, pdf_record, page_responses, tasks,
                   results, extracted, oracle_log, window, task_client, poolVars, extractVars>>

\* STEP 3: await self._bulletproof_merge_decision(last_table, first_table_next);
\* on MERGE the merged table takes the first slot of the next page
P2MergeDecision(r, replies) ==
    /\ run_pc[r] = "p2_decide"
    /\ event_page' = [event_page EXCEPT ![r] = page_responses[r][loop_i[r]].page_number]
    /\ LET resps == page_responses[r]
           i == loop_i[r]
           page == resps[i]
           last_table == Last(page.tables)
           first_table_next == resps[NextPage(resps, i)].tables[1]
       IN \E reply \in replies :
            LET merge_result == BulletproofMergeDecision(last_table, first_table_next,
                                                         page.page_number, reply)
            IN /\ oracle_log' = Append(oracle_log,
                                  [run |-> r, page |-> page.page_number,
                                   next_page |-> resps[NextPage(resps, i)].page_number,
                                   table1 |-> last_table.parts,
                                   table2 |-> first_table_next.parts,
                                   token |-> IsMergeToken(reply),
                                   merged |-> merge_result.merged])
               /\ IF merge_result.merged
                  THEN /\ page_responses' = [page_responses EXCEPT ![r] =
                                               ReplaceFirstOfNext(resps, i, merge_result.table)]
                       /\ run_pc' = [run_pc EXCEPT ![r] = "p2_progress"]
                  ELSE /\ run_pc' = [run_pc EXCEPT ![r] = "p2_last"]
                       /\ UNCHANGED page_responses
    /\ UNCHANGED <<storeVars, pdf_record, loop_i, loop_j, total_inserted, tasks,
                   results, extracted, failed_page, window, task_client, poolVars, extractVars>>

\* the insert of the last table of the page, after SEPARATE or without a
\* next page to merge with
P2InsertLast(r) ==
    /\ run_pc[r] = "p2_last"
    /\ event_page' = [event_page EXCEPT ![r] = page_responses[r][loop_i[r]].page_number]
    /\ LET resps == page_responses[r]
           i == loop_i[r]
           page == resps[i]
       IN \E ok \in StorageOutcomes :
            IF ok
            THEN /\ rows' = Append(rows, TableRecord(r, Last(page.tables),
                                          page.page_number, page.page_number))
                 /\ total_inserted' = [total_inserted EXCEPT ![r] = @ + 1]
                 /\ run_pc' = [run_pc EXCEPT ![r] = "p2_progress"]
                 /\ UNCHANGED <<failed_page, faults, loop_i, loop_j>>
            ELSE /\ faults' = faults + 1
                 /\ failed_page' = [failed_page EXCEPT ![r] = page.page_number]
                 /\ ContinueWithNextPage(r, resps, i)
                 /\ UNCHANGED <<rows, total_inserted>>
    /\ UNCHANGED <<db, page_count, upload_pc, pdf_record, page_responses, tasks,
                   results, extracted, oracle_log, window, task_client, poolVars, extractVars>>

\* "Update progress": pdf_record.tables_processed = total_inserted;
\* await pdf_record.save(), which writes the whole in-memory document
P2SaveProgress(r) ==
    /\ run_pc[r] = "p2_progress"
    /\ event_page' = [event_page EXCEPT ![r] = page_responses[r][loop_i[r]].page_number]
    /\ pdf_record' = [pdf_record EXCEPT ![r].tables_processed = total_inserted[r]]
    /\ \E ok \in StorageOutcomes :
            IF ok
            THEN db' = pdf_record'[r] /\ UNCHANGED faults
            ELSE faults' = faults + 1 /\ UNCHANGED db
    /\ GoToPage(r, page_responses[r], loop_i[r] + 1)
    /\ UNCHANGED <<rows, page_count, upload_pc, page_responses, total_inserted,
                   tasks, results, extracted, oracle_log, failed_page, window, task_client, poolVars, extractVars>>

\* ascending list of the elements of a set of page numbers
RECURSIVE SortedSeq(_)
SortedSeq(S) ==
    IF S = {} THEN <<>>
    ELSE LET m == CHOOSE x \in S : \A y \in S : x <= y
         IN <<m>> \o SortedSeq(S \ {m})

\* descending list of the elements of a set of page numbers
RECURSIVE SortedDown(_)
SortedDown(S) ==
    IF S = {} THEN <<>>
    ELSE LET m == CHOOSE x \in S : \A y \in S : x >= y
         IN <<m>> \o SortedDown(S \ {m})

\* a page list in descending page order
PageListDescending(S, f) ==
    LET pages == SortedDown(S)
    IN [k \in 1..Len(pages) |-> ParsePageResponse(f[pages[k]], pages[k])]

\* the ordered page lists Phase 2 is given: ascending page numbers, each page
\* with the tables parsed from one response
PageList(S, f) ==
    LET pages == SortedSeq(S)
    IN [k \in 1..Len(pages) |-> ParsePageResponse(f[pages[k]], pages[k])]

\* Phase 2 entered by run 1 with any ordered page list
InitPhase2 ==
    /\ PoolInit
    /\ db = NewDocument("background_processing")
    /\ rows = <<>>
    /\ faults = 0
    /\ page_count = MaxPage
    /\ upload_pc = "returned"
    /\ tasks = [r \in Runs |-> [p \in Pages |-> "none"]]
    /\ results = [r \in Runs |-> [p \in Pages |-> EmptyPage(p)]]
    /\ \E S \in SUBSET (1..MaxPage) :
         /\ Cardinality(S) <= MaxEntries
         /\ \E f \in [S -> Responses] :
              LET resps == PageList(S, f)
              IN /\ page_responses = [r \in Runs |-> IF r = 1 THEN resps ELSE <<>>]
                 /\ extracted = [r \in Runs |-> IF r = 1 THEN resps ELSE <<>>]
                 /\ loop_i = [r \in Runs |-> IF r = 1 THEN SkipEmpty(resps, 1) ELSE 1]
                 /\ run_pc = [r \in Runs |->
                                IF r = 1 THEN PcAtPage(resps, SkipEmpty(resps, 1))
                                ELSE "idle"]
    /\ pdf_record = [r \in Runs |-> NewDocument("background_processing")]
    /\ loop_j = [r \in Runs |-> 1]
    /\ total_inserted = [r \in Runs |-> 0]
    /\ oracle_log = <<>>
    /\ event_page = [r \in Runs |-> 0]
    /\ failed_page = [r \in Runs |-> 0]
    /\ window = NoRequests
    /\ task_client = NoClients

Phase2Next ==
    \/ \E r \in Runs : P2InsertStep1(r)
    \/ \E r \in Runs : P2MergeDecision(r, OracleReplies)
    \/ \E r \in Runs : P2InsertLast(r)
    \/ \E r \in Runs : P2SaveProgress(r)

SpecPhase2 == InitPhase2 /\ [][Phase2Next]_vars

\* ---------------------------------------- the structural merge on any tables
\* the longest table content, in lines
MaxLines == 2

\* the pages of a chain of merges
ChainPages == 1..3

\* the lines a table content is made of
Lines == {HDR, SEP, ROW_A, ROW_B, ROW_DASH, NOTE}

\* the contents of a table block, 1..MaxLines lines
Contents == UNION { [1..n -> Lines] : n \in 1..MaxLines }

\* a response with one table block
OneBlock(content) == << [title_line |-> "{Table 1: Sales Q1}", content |-> content] >>

\* the merge-decision replies given in the chain
MergeReplies == {ReplyMerge, ReplySeparate}

\* Phase 2 entered by run 1 with pages 1, 2, 3, each with one table block of
\* any content; no storage failure is injected
InitMerge ==
    /\ PoolInit
    /\ db = NewDocument("background_processing")
    /\ rows = <<>>
    /\ faults = MaxFaults
    /\ page_count = MaxPage
    /\ upload_pc = "returned"
    /\ tasks = [r \in Runs |-> [p \in Pages |-> "none"]]
    /\ results = [r \in Runs |-> [p \in Pages |-> EmptyPage(p)]]
    /\ \E f \in [ChainPages -> Contents] :
         LET resps == PageList(ChainPages, [p \in ChainPages |-> OneBlock(f[p])])
         IN /\ page_responses = [r \in Runs |-> IF r = 1 THEN resps ELSE <<>>]
            /\ extracted = [r \in Runs |-> IF r = 1 THEN resps ELSE <<>>]
            /\ loop_i = [r \in Runs |-> IF r = 1 THEN SkipEmpty(resps, 1) ELSE 1]
            /\ run_pc = [r \in Runs |->
                           IF r = 1 THEN PcAtPage(resps, SkipEmpty(resps, 1))
                           ELSE "idle"]
    /\ pdf_record = [r \in Runs |-> NewDocument("background_processing")]
    /\ loop_j = [r \in Runs |-> 1]
    /\ total_inserted = [r \in Runs |-> 0]
    /\ oracle_log = <<>>
    /\ event_page = [r \in Runs |-> 0]
    /\ failed_page = [r \in Runs |-> 0]
    /\ window = NoRequests
    /\ task_client = NoClients

MergeNext ==
    \/ \E r \in Runs : P2MergeDecision(r, MergeReplies)
    \/ \E r \in Runs : P2InsertLast(r)
    \/ \E r \in Runs : P2SaveProgress(r)

SpecMerge == InitMerge /\ [][MergeNext]_vars

\* ------------------------------------ launches: endpoints/pdf.py handlers
\* asyncio.create_task(extract_tables_background(pdf_id)): the run takes the
\* first free slot
FreeSlot == CHOOSE r \in Runs : run_pc[r] = "idle" /\ \A q \in Runs : run_pc[q] = "idle" => r <= q

RunActive(r) == run_pc[r] \notin {"idle", "done"}

CreateTask ==
    run_pc' = [run_pc EXCEPT ![FreeSlot] = "launched"]

\* upload_and_process_document, first part of process_pdf_phase_1_async: the
\* PDF document is stored with its page count and status PROCESSING
UploadInvoke ==
    /\ upload_pc = "new"
    /\ \E n \in 0..MaxPages : page_count' = n
    /\ db' = NewDocument("processing")
    /\ upload_pc' = "processing"
    /\ UNCHANGED <<rows, faults, runVars, poolVars, extractVars>>

\* upload_and_process_document, the rest: text and images are done, the status
\* is TEXT_IMAGES_COMPLETE, the background run is created and the document id
\* is returned; or the first phase failed, the status is FAILED and the
\* request is answered with an error
UploadFinish ==
    /\ upload_pc = "processing"
    /\ \/ /\ db' = [db EXCEPT !.processing_status = "text_images_complete"]
          /\ upload_pc' = "returned"
          /\ CreateTask
       \/ /\ db' = [db EXCEPT !.processing_status = "failed"]
          /\ upload_pc' = "rejected"
          /\ UNCHANGED run_pc
    /\ UNCHANGED <<rows, faults, page_count, pdf_record, page_responses, loop_i,
                   loop_j, total_inserted, tasks, results, extracted, event_page, failed_page, window, task_client, oracle_log,
                   poolVars, extractVars>>

\* force_table_extraction: nothing when the status read is COMPLETED or
\* BACKGROUND_PROCESSING, else a new run is created. The request names the
\* document id, which the upload has returned.
ForceTableExtraction ==
    /\ upload_pc = "returned"
    /\ db.processing_status \notin {"completed", "background_processing"}
    /\ \E r \in Runs : run_pc[r] = "idle"
    /\ (\E r \in Runs : RunActive(r)) => page_count <= OverlapPages
    /\ CreateTask
    /\ UNCHANGED <<storeVars, pdf_record, page_responses, loop_i, loop_j,
                   total_inserted, tasks, results, extracted, event_page, failed_page, window, task_client, oracle_log, poolVars, extractVars>>

\* ------------------------------ extract_tables_for_pdf: one run, await by await
ErrImages == "Failed to generate page images"
ErrStorage == "storage error"

\* an except block that leaves the status as it is
FailedKeepsStatus(record, err) == [record EXCEPT !.background_error = err]

\* the except block: processing_status = FAILED, background_error = str(e)
FailedRecord(record, err) ==
    [record EXCEPT !.processing_status = "failed", !.background_error = err]

\* pdf_record = await PDF.get(pdf_id)
RunGet(r) ==
    /\ run_pc[r] = "launched"
    /\ pdf_record' = [pdf_record EXCEPT ![r] = db]
    /\ run_pc' = [run_pc EXCEPT ![r] = "loaded"]
    /\ UNCHANGED <<storeVars, page_responses, loop_i, loop_j, total_inserted, tasks,
                   results, extracted, event_page, failed_page, window, task_client, oracle_log, poolVars, extractVars>>

\* processing_status = BACKGROUND_PROCESSING; await pdf_record.save()
RunSetBackground(r) ==
    /\ run_pc[r] = "loaded"
    /\ LET record == [pdf_record[r] EXCEPT !.processing_status = "background_processing"]
       IN \E ok \in StorageOutcomes :
            IF ok
            THEN /\ db' = record
                 /\ pdf_record' = [pdf_record EXCEPT ![r] = record]
                 /\ run_pc' = [run_pc EXCEPT ![r] = "images"]
                 /\ UNCHANGED faults
            ELSE /\ faults' = faults + 1
                 /\ pdf_record' = [pdf_record EXCEPT ![r] = FailedRecord(record, ErrStorage)]
                 /\ run_pc' = [run_pc EXCEPT ![r] = "failing"]
                 /\ UNCHANGED db
    /\ UNCHANGED <<rows, page_count, upload_pc, page_responses, loop_i, loop_j,
                   total_inserted, tasks, results, extracted, event_page, failed_page, window, task_client, oracle_log, poolVars, extractVars>>

\* images_folder = await self._generate_page_images(pdf_record): None (the
\* download, the file type or the conversion failed) raises; else the folder
\* holds page_NNN.png for some pages, and _phase1_parallel_extraction makes a
\* task for each page of 1..page_count whose image exists and awaits gather
RunGenerateImages(r) ==
    /\ run_pc[r] = "images"
    /\ \/ /\ pdf_record' = [pdf_record EXCEPT ![r] = FailedRecord(@, ErrImages)]
          /\ run_pc' = [run_pc EXCEPT ![r] = "failing"]
          /\ UNCHANGED tasks
       \/ \E images \in SUBSET (1..page_count) :
            /\ tasks' = [tasks EXCEPT ![r] =
                           [p \in Pages |-> IF p \in images THEN "waiting" ELSE "none"]]
            /\ run_pc' = [run_pc EXCEPT ![r] = "phase1"]
            /\ UNCHANGED pdf_record
    /\ UNCHANGED <<storeVars, page_responses, loop_i, loop_j, total_inserted,
                   results, extracted, event_page, failed_page, window, task_client, oracle_log, poolVars, extractVars>>

\* a semaphore with one permit for every page of the document
PermitsOnePerPage == page_count

\* the permits of self.semaphore
Permits == IF HardCap < NumKeys THEN HardCap ELSE NumKeys

InFlight(r) == Cardinality({p \in Pages : tasks[r][p] \in {"attempt1", "attempt2"}})

\* _get_next_client: clients[(thread id + milliseconds) % len(clients)], any
\* of the clients, whether or not a call made with it is still in flight; the
\* request goes out at once, no last-request time is looked at or recorded
GetNextClient(keys) == keys

\* client.models.generate_content: the call of page p goes out with the
\* client of key k
SendWith(r, p, k, w) ==
    /\ window' = Issue(w, k)
    /\ task_client' = [task_client EXCEPT ![r][p] = k]

\* the call of page p is over
CallOver(r, p) == task_client' = [task_client EXCEPT ![r][p] = None]

\* _extract_from_single_page: async with self.semaphore, the image is opened
\* and the first call is made; an image that cannot be opened ends the task
\* with PageResponse(page_num, "EMPTY", [])
TaskAcquire(r, p, keys) ==
    /\ run_pc[r] = "phase1"
    /\ tasks[r][p] = "waiting"
    /\ InFlight(r) < Permits
    /\ \/ /\ tasks' = [tasks EXCEPT ![r][p] = "attempt1"]
          /\ \E k \in GetNextClient(keys) : SendWith(r, p, k, window)
          /\ UNCHANGED results
       \/ /\ tasks' = [tasks EXCEPT ![r][p] = "done_error"]
          /\ results' = [results EXCEPT ![r][p] = EmptyPage(p)]
          /\ UNCHANGED <<window, task_client>>
    /\ UNCHANGED <<storeVars, run_pc, pdf_record, page_responses, loop_i, loop_j,
                   total_inserted, extracted, event_page, failed_page, oracle_log, poolVars, extractVars>>

\* _extract_from_single_page: one generate_content call returns. A response
\* with text is parsed and returned. After the first attempt a response
\* without text leads straight to the second call, an exception (error, 60 s
\* timeout) to asyncio.sleep(1) and then the second call; after the second
\* attempt both lead to PageResponse(page_num, "EMPTY", [])
TaskCallReturns(r, p, responses, keys) ==
    /\ run_pc[r] = "phase1"
    /\ tasks[r][p] \in {"attempt1", "attempt2"}
    /\ \/ \E response \in responses :
            /\ results' = [results EXCEPT ![r][p] = ParsePageResponse(response, p)]
            /\ tasks' = [tasks EXCEPT ![r][p] = "done"]
            /\ CallOver(r, p)
            /\ UNCHANGED window
       \/ /\ tasks[r][p] = "attempt1"
          /\ tasks' = [tasks EXCEPT ![r][p] = "attempt2"]
          /\ \E k \in GetNextClient(keys) :
                \/ SendWith(r, p, k, window)
                \/ SendWith(r, p, k, NoRequests)
          /\ UNCHANGED results
       \/ /\ tasks[r][p] = "attempt2"
          /\ results' = [results EXCEPT ![r][p] = EmptyPage(p)]
          /\ tasks' = [tasks EXCEPT ![r][p] = "done_failed"]
          /\ CallOver(r, p)
          /\ UNCHANGED window
    /\ UNCHANGED <<storeVars, run_pc, pdf_record, page_responses, loop_i, loop_j,
                   total_inserted, extracted, event_page, failed_page, oracle_log, poolVars, extractVars>>

\* at least request_interval passes without a request of a page extraction
IntervalElapses ==
    /\ \E r \in Runs : run_pc[r] = "phase1"
    /\ window # NoRequests
    /\ window' = NoRequests
    /\ UNCHANGED <<storeVars, run_pc, pdf_record, page_responses, loop_i, loop_j,
                   total_inserted, tasks, results, extracted, event_page, failed_page, oracle_log,
                   task_client, poolVars, extractVars>>

\* a gather that leaves out the pages without a table
GatherDropsEmpty(r) ==
    LET pages == SortedSeq({p \in Pages : tasks[r][p] # "none" /\ results[r][p].tables # <<>>})
    IN [k \in 1..Len(pages) |-> results[r][pages[k]]]

\* a gather that leaves out the pages whose extraction failed twice
GatherDropsFailed(r) ==
    LET pages == SortedSeq({p \in Pages : tasks[r][p] = "done"})
    IN [k \in 1..Len(pages) |-> results[r][pages[k]]]

\* the list _phase1_parallel_extraction returns: the results of the tasks in
\* the order the tasks were made (by page number), none dropped
GatherResults(r) ==
    LET pages == SortedSeq({p \in Pages : tasks[r][p] # "none"})
    IN [k \in 1..Len(pages) |-> results[r][pages[k]]]

\* a gather that returns as soon as no task is waiting for a permit
GatherReturnsEarly(r) ==
    \A p \in Pages : tasks[r][p] # "waiting"

\* await asyncio.gather(*tasks, return_exceptions=True) returns once every
\* task has returned
AllTasksDone(r) ==
    \A p \in Pages : tasks[r][p] \in {"none", "done", "done_failed", "done_error"}

\* results = await asyncio.gather(*tasks, return_exceptions=True) returns once
\* every task is done; Phase 2 starts on the list
Phase1Gather(r) ==
    /\ run_pc[r] = "phase1"
    /\ AllTasksDone(r)
    /\ page_responses' = [page_responses EXCEPT ![r] = GatherResults(r)]
    /\ extracted' = [extracted EXCEPT ![r] = GatherResults(r)]
    /\ event_page' = [event_page EXCEPT ![r] = 0]
    /\ failed_page' = [failed_page EXCEPT ![r] = 0]
    /\ total_inserted' = [total_inserted EXCEPT ![r] = 0]
    /\ GoToPage(r, GatherResults(r), 1)
    /\ UNCHANGED <<storeVars, pdf_record, tasks, results, oracle_log, window, task_client, poolVars, extractVars>>

\* "Update completion": status COMPLETED, both counters = total_tables;
\* await pdf_record.save()
RunComplete(r) ==
    /\ run_pc[r] = "complete"
    /\ LET record == [pdf_record[r] EXCEPT !.processing_status = "completed",
                                           !.total_tables_found = total_inserted[r],
                                           !.tables_processed = total_inserted[r]]
       IN \E ok \in StorageOutcomes :
            IF ok
            THEN /\ db' = record
                 /\ pdf_record' = [pdf_record EXCEPT ![r] = record]
                 /\ run_pc' = [run_pc EXCEPT ![r] = "done"]
                 /\ UNCHANGED faults
            ELSE /\ faults' = faults + 1
                 /\ pdf_record' = [pdf_record EXCEPT ![r] = FailedRecord(record, ErrStorage)]
                 /\ run_pc' = [run_pc EXCEPT ![r] = "failing"]
                 /\ UNCHANGED db
    /\ UNCHANGED <<rows, page_count, upload_pc, page_responses, loop_i, loop_j,
                   total_inserted, tasks, results, extracted, event_page, failed_page, window, task_client, oracle_log, poolVars, extractVars>>

\* the except block's await pdf_record.save(); when it raises too the run
\* ends with the exception
RunSaveFailed(r) ==
    /\ run_pc[r] = "failing"
    /\ \E ok \in StorageOutcomes :
            IF ok
            THEN db' = pdf_record[r] /\ UNCHANGED faults
            ELSE faults' = faults + 1 /\ UNCHANGED db
    /\ run_pc' = [run_pc EXCEPT ![r] = "done"]
    /\ UNCHANGED <<rows, page_count, upload_pc, pdf_record, page_responses, loop_i,
                   loop_j, total_inserted, tasks, results, extracted, event_page, failed_page, window, task_client, oracle_log,
                   poolVars, extractVars>>

\* the replies and responses the external model gives in the whole pipeline
PipelineReplies == {ReplyMerge, ReplySeparate, ReplyRaise}
PipelineResponses == { <<>>, <<BlockSales>>, <<BlockCosts, BlockSales>> }
\* the clients the rotation lands on in the whole pipeline
PipelineKeys == {1}

Init == PoolInit /\ StoreIdle /\ RunsIdle

Next ==
    \/ UploadInvoke
    \/ UploadFinish
    \/ ForceTableExtraction
    \/ \E r \in Runs : RunGet(r)
    \/ \E r \in Runs : RunSetBackground(r)
    \/ \E r \in Runs : RunGenerateImages(r)
    \/ \E r \in Runs, p \in Pages : TaskAcquire(r, p, PipelineKeys)
    \/ \E r \in Runs, p \in Pages : TaskCallReturns(r, p, PipelineResponses, PipelineKeys)
    \/ \E r \in Runs : Phase1Gather(r)
    \/ \E r \in Runs : P2InsertStep1(r)
    \/ \E r \in Runs : P2MergeDecision(r, PipelineReplies)
    \/ \E r \in Runs : P2InsertLast(r)
    \/ \E r \in Runs : P2SaveProgress(r)
    \/ \E r \in Runs : RunComplete(r)
    \/ \E r \in Runs : RunSaveFailed(r)

Spec == Init /\ [][Next]_vars

\* one upload and the run it creates, without force-table-extraction requests
NextRun ==
    \/ UploadInvoke
    \/ UploadFinish
    \/ \E r \in Runs : RunGet(r)
    \/ \E r \in Runs : RunSetBackground(r)
    \/ \E r \in Runs : RunGenerateImages(r)
    \/ \E r \in Runs, p \in Pages : TaskAcquire(r, p, PipelineKeys)
    \/ \E r \in Runs, p \in Pages : TaskCallReturns(r, p, PipelineResponses, PipelineKeys)
    \/ \E r \in Runs : Phase1Gather(r)
    \/ \E r \in Runs : P2InsertStep1(r)
    \/ \E r \in Runs : P2MergeDecision(r, PipelineReplies)
    \/ \E r \in Runs : P2InsertLast(r)
    \/ \E r \in Runs : P2SaveProgress(r)
    \/ \E r \in Runs : RunComplete(r)
    \/ \E r \in Runs : RunSaveFailed(r)

SpecRun == Init /\ [][NextRun]_vars

\* the status writes of a run when they succeed: the saves of
\* BACKGROUND_PROCESSING, of COMPLETED and of FAILED do not raise
SetBackgroundSaved(r) == RunSetBackground(r) /\ UNCHANGED faults
CompleteSaved(r) == RunComplete(r) /\ UNCHANGED faults
FailedSaved(r) == RunSaveFailed(r) /\ UNCHANGED faults

\* one upload and its run with status writes that succeed; a row insert or
\* the progress save of a page may still raise
NextRunLive ==
    \/ UploadInvoke
    \/ UploadFinish
    \/ \E r \in Runs : RunGet(r)
    \/ \E r \in Runs : SetBackgroundSaved(r)
    \/ \E r \in Runs : RunGenerateImages(r)
    \/ \E r \in Runs, p \in Pages : TaskAcquire(r, p, PipelineKeys)
    \/ \E r \in Runs, p \in Pages : TaskCallReturns(r, p, PipelineResponses, PipelineKeys)
    \/ \E r \in Runs : Phase1Gather(r)
    \/ \E r \in Runs : P2InsertStep1(r)
    \/ \E r \in Runs : P2MergeDecision(r, PipelineReplies)
    \/ \E r \in Runs : P2InsertLast(r)
    \/ \E r \in Runs : P2SaveProgress(r)
    \/ \E r \in Runs : CompleteSaved(r)
    \/ \E r \in Runs : FailedSaved(r)

\* every await of the run returns or raises (the model calls are bounded by
\* asyncio.wait_for) and the event loop resumes what is ready, so a step that
\* can be taken is taken
SpecRunLive == Init /\ [][NextRunLive]_vars /\ WF_vars(NextRunLive)

\* Phase 1 of one run on its own: the database record is in
\* background_processing, the page images exist, every page has a task
InitPhase1 ==
    /\ PoolInit
    /\ db = NewDocument("background_processing")
    /\ rows = <<>>
    /\ faults = 0
    /\ upload_pc = "returned"
    /\ page_count \in 1..MaxPages
    /\ run_pc = [r \in Runs |-> IF r = 1 THEN "phase1" ELSE "idle"]
    /\ pdf_record = [r \in Runs |-> NewDocument("background_processing")]
    /\ page_responses = [r \in Runs |-> <<>>]
    /\ loop_i = [r \in Runs |-> 1]
    /\ loop_j = [r \in Runs |-> 1]
    /\ total_inserted = [r \in Runs |-> 0]
    /\ tasks = [r \in Runs |->
                  [p \in Pages |-> IF r = 1 /\ p <= page_count THEN "waiting" ELSE "none"]]
    /\ results = [r \in Runs |-> [p \in Pages |-> EmptyPage(p)]]
    /\ extracted = [r \in Runs |-> <<>>]
    /\ oracle_log = <<>>
    /\ event_page = [r \in Runs |-> 0]
    /\ failed_page = [r \in Runs |-> 0]
    /\ window = NoRequests
    /\ task_client = NoClients

Phase1Next ==
    \/ \E r \in Runs, p \in Pages : TaskAcquire(r, p, Keys)
    \/ \E r \in Runs, p \in Pages : TaskCallReturns(r, p, PipelineResponses, Keys)
    \/ IntervalElapses
    \/ \E r \in Runs : Phase1Gather(r)

SpecPhase1 == InitPhase1 /\ [][Phase1Next]_vars

\* ------------------------------------------------------------ properties
RECURSIVE SumRowCounts(_)
SumRowCounts(tables) ==
    IF tables = <<>> THEN 0
    ELSE Head(tables).row_count + SumRowCounts(Tail(tables))

\* the pages of the fragments of a table follow each other without a gap
ConsecutiveParts(parts) ==
    \A k \in 1..(Len(parts) - 1) : parts[k + 1][1] = parts[k][1] + 1

\* the entry of page p in a page list, or an entry without tables
EntryOf(resps, p) ==
    IF \E k \in 1..Len(resps) : resps[k].page_number = p
    THEN resps[CHOOSE k \in 1..Len(resps) : resps[k].page_number = p]
    ELSE EmptyPage(p)

\* C1: the merge oracle is consulted, and a merge made, only for the pair
\* (last table of page N, first table of the next list entry), and only when
\* that entry is page N+1 and has a table: every logged decision is about
\* pages N and N+1, its first table ends with the last table Phase 1 found on
\* page N, its second is the first table of page N+1, and every table, in
\* memory or written, is made of fragments of consecutive pages.
C1_MergeOnlyAdjacentPages ==
    /\ \A k \in 1..Len(oracle_log) :
         LET e == oracle_log[k]
             found == extracted[e.run]
         IN /\ e.next_page = e.page + 1
            /\ Last(e.table1) = <<e.page, Len(EntryOf(found, e.page).tables)>>
            /\ e.table2 = << <<e.next_page, 1>> >>
            /\ EntryOf(found, e.next_page).tables # <<>>
    /\ \A k \in 1..Len(rows) : ConsecutiveParts(rows[k].parts)
    /\ \A r \in Runs : \A k \in 1..Len(page_responses[r]) :
         \A j \in 1..Len(page_responses[r][k].tables) :
            ConsecutiveParts(page_responses[r][k].tables[j].parts)

\* pages 1, 2 and 4 all with tables (no entry for page 3), Phase 2 finished,
\* page 1 and 2 merged, and the tables of page 2 and page 4 in different rows
C1_Witness ==
    /\ run_pc[1] = "complete"
    /\ Len(extracted[1]) = 3
    /\ extracted[1][1].page_number = 1 /\ extracted[1][1].tables # <<>>
    /\ extracted[1][2].page_number = 2 /\ extracted[1][2].tables # <<>>
    /\ extracted[1][3].page_number = 4 /\ extracted[1][3].tables # <<>>
    /\ Len(oracle_log) = 1 /\ oracle_log[1].merged
    /\ \E k \in 1..Len(rows) : rows[k].start_page = 1 /\ rows[k].end_page = 2
    /\ \E k \in 1..Len(rows) : rows[k].start_page = 4 /\ rows[k].end_page = 4

\* C2: an oracle call that raises, times out or returns anything but the
\* decision token MERGE gives SEPARATE, and the pair then ends in two rows
\* (no written row holds fragments of both tables).
C2_ConservativeDefault ==
    \A k \in 1..Len(oracle_log) :
        LET e == oracle_log[k]
        IN ~e.token =>
             /\ ~e.merged
             /\ \A n \in 1..Len(rows) :
                  ~(\E a \in 1..Len(rows[n].parts), b \in 1..Len(rows[n].parts) :
                        /\ rows[n].run = e.run
                        /\ rows[n].parts[a] = Last(e.table1)
                        /\ rows[n].parts[b] = e.table2[1])

\* (start_page, table_number) of row a is not after that of row b
RowLeq(a, b) ==
    \/ a.start_page < b.start_page
    \/ a.start_page = b.start_page /\ a.table_number <= b.table_number

\* C4: the rows a run writes are non-decreasing in (start_page, table_number)
\* in the order written, and every row has start_page <= end_page.
C4_RowsWrittenInOrder ==
    /\ \A a \in 1..Len(rows), b \in 1..Len(rows) :
         (a < b /\ rows[a].run = rows[b].run) => RowLeq(rows[a], rows[b])
    /\ \A a \in 1..Len(rows) : rows[a].start_page <= rows[a].end_page

\* a merged row spanning two pages was written between other rows, after a
\* storage failure
C4_Witness ==
    /\ run_pc[1] = "complete"
    /\ faults > 0
    /\ Len(rows) >= 3
    /\ \E k \in 2..Len(rows) :
         /\ rows[k].start_page < rows[k].end_page
         /\ rows[k - 1].start_page = rows[k].start_page
         /\ k < Len(rows)

\* k >= 2 consecutive pages, one table each
IsChain(resps) ==
    /\ Len(resps) >= 2
    /\ \A k \in 1..Len(resps) : Len(resps[k].tables) = 1
    /\ \A k \in 1..(Len(resps) - 1) :
         resps[k + 1].page_number = resps[k].page_number + 1

RECURSIVE SumPages(_)
SumPages(resps) ==
    IF resps = <<>> THEN 0
    ELSE SumRowCounts(Head(resps).tables) + SumPages(Tail(resps))

AllMerged(r) ==
    /\ Len(oracle_log) = Len(extracted[r]) - 1
    /\ \A k \in 1..Len(oracle_log) : oracle_log[k].merged

\* C7: a chain of k >= 2 consecutive one-table pages with MERGE at each of
\* the k-1 boundaries ends (when no write fails) in exactly one row, from the
\* first page of the chain to its last, with the row counts summed.
C7_ChainBecomesOneRow ==
    (/\ run_pc[1] = "complete"
     /\ faults = 0
     /\ IsChain(extracted[1])
     /\ AllMerged(1))
    => /\ Len(rows) = 1
       /\ rows[1].start_page = extracted[1][1].page_number
       /\ rows[1].end_page = Last(extracted[1]).page_number
       /\ rows[1].row_count = SumPages(extracted[1])

\* the three-page chain 2 -> 3 -> 4 merged twice and written
C7_Witness ==
    /\ run_pc[1] = "complete"
    /\ faults = 0
    /\ Len(extracted[1]) = 3
    /\ IsChain(extracted[1])
    /\ AllMerged(1)
    /\ Len(rows) = 1
    /\ rows[1].start_page = 2 /\ rows[1].end_page = 4

\* ------------------------------------------------ a page that fails twice
\* Phase 1 of run r has returned its list
Phase1Returned(r) ==
    run_pc[r] \in {"p2_step1", "p2_decide", "p2_last", "p2_progress", "complete"}

\* the fragments <<page, table_id>> Phase 1 of run r found
Fragments(r) ==
    UNION { { <<extracted[r][k].page_number, extracted[r][k].tables[j].table_id>> :
                j \in 1..Len(extracted[r][k].tables) } :
            k \in 1..Len(extracted[r]) }

\* the rows that hold fragment f
RowsWith(f) ==
    {n \in 1..Len(rows) : \E a \in 1..Len(rows[n].parts) : rows[n].parts[a] = f}

\* C8: a page whose extraction call fails on both attempts gives a page
\* result with zero tables, not an exception; the list Phase 1 returns has
\* one entry for every page that had a task, the failed page's entry empty
\* and every other entry what its call returned; and the run, when no write
\* fails, ends COMPLETED with every table of the other pages in exactly one
\* row and no row reaching across the failed page.
C8_FailedPageIsEmptyResult ==
    \A r \in Runs :
        /\ \A p \in Pages :
              tasks[r][p] = "done_failed" => results[r][p] = EmptyPage(p)
        /\ Phase1Returned(r) =>
              /\ Len(extracted[r]) = Cardinality({p \in Pages : tasks[r][p] # "none"})
              /\ \A p \in Pages :
                    tasks[r][p] # "none" =>
                        \E k \in 1..Len(extracted[r]) : extracted[r][k] = results[r][p]
        /\ (/\ run_pc[r] = "done"
            /\ faults = 0
            /\ \E p \in Pages : tasks[r][p] = "done_failed")
           => /\ db.processing_status = "completed"
              /\ \A f \in Fragments(r) : Cardinality(RowsWith(f)) = 1
              /\ \A n \in 1..Len(rows), p \in Pages :
                    tasks[r][p] = "done_failed" =>
                        ~(rows[n].start_page <= p /\ p <= rows[n].end_page)

\* pages 1, 2, 3: page 2 failed twice, pages 1 and 3 have tables, the run is
\* COMPLETED and the tables of page 1 and of page 3 are in rows of their own
C8_Witness ==
    /\ run_pc[1] = "done"
    /\ faults = 0
    /\ tasks[1] = <<"done", "done_failed", "done">>
    /\ Len(extracted[1]) = 3
    /\ extracted[1][1].tables # <<>>
    /\ extracted[1][2] = EmptyPage(2)
    /\ extracted[1][3].tables # <<>>
    /\ db.processing_status = "completed"
    /\ db.tables_processed = Len(rows)
    /\ \E n \in 1..Len(rows) : rows[n].start_page = 1 /\ rows[n].end_page = 1
    /\ \E n \in 1..Len(rows) : rows[n].start_page = 3 /\ rows[n].end_page = 3

\* --------------------------------------------------------- the key pool
\* the state ApiKeyManager keeps
PoolState == <<key_owners, thread_assignments, next_key_index, last_request_time>>

\* C3: whatever the interleaving of get_client and release_client calls, and
\* also when every key is owned, get_client never hands a worker a key that
\* another worker owns: no step moves a key from one owner to another.
C3_AcquireIsMutuallyExclusive ==
    [][\A t \in Workers :
          GetClient(t) =>
              \A k \in Keys :
                  key_owners[k] \notin {None, t} => key_owners'[k] = key_owners[k]]_vars

\* a get_client call returns one of the keys, owned by nobody else at the call
AcquireReturnsUnowned(t) ==
    GetClient(t) =>
        /\ current_key'[t] \in Keys
        /\ key_owners[current_key'[t]] \in {None, t}

\* C6: a release_client call for a pair that owns nothing (a second release,
\* a key of somebody else, a stale release after the key moved on) leaves
\* the pool state as it was, and every get_client call after such a release
\* still returns a valid key that nobody else owns.
C6_ReleaseIsIdempotent ==
    [][/\ \A k \in Keys, t \in Workers :
              (~OwnsKey(k, t) /\ ReleaseClient(k, t)) => UNCHANGED PoolState
       /\ noop_release => \A t \in Workers : AcquireReturnsUnowned(t)]_vars

\* ------------------------------------------------- the document's status
\* C5: over the runs of a document the stored tables_processed never goes
\* down, and whenever the stored status is COMPLETED it equals the number of
\* Table rows stored for the document.
C5_CounterMatchesRows ==
    [][/\ db'.tables_processed >= db.tables_processed
       /\ db'.processing_status = "completed" => db'.tables_processed = Len(rows')]_vars

\* no page image was found by the run: no extraction task was made
NoImagesFound(r) == \A p \in Pages : tasks[r][p] = "none"

\* C9: a run that found no page image, storage never failing, ends with the
\* status FAILED, an error text recorded and no Table row written.
C9_NoImagesMeansFailed ==
    \A r \in Runs :
        (run_pc[r] = "done" /\ faults = 0 /\ NoImagesFound(r)) =>
            /\ db.processing_status = "failed"
            /\ db.background_error \notin {NoError, ""}
            /\ rows = <<>>

\* the edges of the status machine
StatusEdge(a, b) ==
    \/ <<a, b>> \in { <<"uploaded", "processing">>,
                      <<"processing", "text_images_complete">>,
                      <<"text_images_complete", "background_processing">>,
                      <<"background_processing", "completed">> }
    \/ b = "failed" /\ a \notin {"completed", "failed"}

\* C10: every change of the stored processing_status is an edge of the status
\* machine; in particular no change leaves COMPLETED or FAILED.
C10_StatusFollowsMachine ==
    [][db'.processing_status # db.processing_status =>
          StatusEdge(db.processing_status, db'.processing_status)]_vars

\* ------------------------------------------------ Phase 2, page by page
\* the body of the page loop of run r has been through the page at index k
PageHandled(r, k) ==
    /\ k <= Len(page_responses[r])
    /\ page_responses[r][k].tables # <<>>
    /\ \/ k < loop_i[r]
       \/ k = loop_i[r] /\ run_pc[r] = "p2_progress"

\* a row of run r holds exactly the table with these fragments
Inserted(r, parts) ==
    \E n \in 1..Len(rows) : rows[n].run = r /\ rows[n].parts = parts

\* the decisions logged for the page at index k of run r
DecisionsAt(r, k) ==
    {n \in 1..Len(oracle_log) :
        /\ oracle_log[n].run = r
        /\ oracle_log[n].page = page_responses[r][k].page_number}

\* C11: once Phase 2 has handled a page with tables (no write failing), every
\* table of the page but the last is a row and is counted; the last table is
\* a row exactly when the decision was SEPARATE or the next list entry is not
\* the adjacent page with a table; on MERGE the last table is no row and the
\* merged table sits in the first slot of the next page, the other slots of
\* that page untouched.
C11_Phase2PageStep ==
    faults = 0 =>
      /\ Len(rows) = total_inserted[1]
      /\ \A k \in 1..Len(page_responses[1]) :
           PageHandled(1, k) =>
             LET resps == page_responses[1]
                 tables == resps[k].tables
                 last_table == Last(tables)
                 candidate == HasMergeCandidate(extracted[1], k)
                 separate == \E n \in DecisionsAt(1, k) : ~oracle_log[n].merged
                 merge == \E n \in DecisionsAt(1, k) : oracle_log[n].merged
             IN /\ \A j \in 1..(Len(tables) - 1) : Inserted(1, tables[j].parts)
                /\ Cardinality(DecisionsAt(1, k)) = IF candidate THEN 1 ELSE 0
                /\ Inserted(1, last_table.parts) <=> (separate \/ ~candidate)
                /\ merge =>
                     /\ ~Inserted(1, last_table.parts)
                     /\ resps[k + 1].tables[1].parts =
                            last_table.parts \o extracted[1][k + 1].tables[1].parts
                     /\ resps[k + 1].tables[1].row_count =
                            last_table.row_count + extracted[1][k + 1].tables[1].row_count
                     /\ k + 1 >= loop_i[1] =>
                           \A j \in 2..Len(resps[k + 1].tables) :
                               resps[k + 1].tables[j] = extracted[1][k + 1].tables[j]

\* a page with two tables has been handled with MERGE for its last table, and
\* another page with SEPARATE, all writes succeeding
C11_Witness ==
    /\ run_pc[1] = "complete"
    /\ faults = 0
    /\ \E k \in 1..Len(page_responses[1]) :
          /\ Len(page_responses[1][k].tables) = 2
          /\ \E n \in DecisionsAt(1, k) : oracle_log[n].merged
          /\ Inserted(1, page_responses[1][k].tables[1].parts)
          /\ ~Inserted(1, page_responses[1][k].tables[2].parts)
    /\ \E n \in 1..Len(oracle_log) : ~oracle_log[n].merged

\* run r is inside the page loop of Phase 2

\* C12: the side effects of Phase 2 (row insert, merge decision, progress
\* update) come in ascending page order: the page of each one is never below
\* the page of the one before it in the run, a new row ends on the page of
\* its insert and a new decision is about the page it is taken on.
C12_AscendingPageOrder ==
    [][\A r \in Runs :
          InPhase2(r) =>
              /\ event_page'[r] >= event_page[r]
              /\ \A n \in 1..Len(rows') :
                    rows'[n].run = r => rows'[n].end_page <= event_page'[r]
              /\ \A n \in 1..Len(oracle_log') :
                    oracle_log'[n].run = r => oracle_log'[n].page <= event_page'[r]
              /\ (Len(rows') > Len(rows) /\ Last(rows').run = r) =>
                    Last(rows').end_page = event_page'[r]
              /\ (Len(oracle_log') > Len(oracle_log) /\ Last(oracle_log').run = r) =>
                    Last(oracle_log').page = event_page'[r]]_vars

\* Phase 2 is over after rows on three different pages and two decisions
C12_Witness ==
    /\ run_pc[1] = "complete"
    /\ Len(oracle_log) = 2
    /\ \E a \in 1..Len(rows), b \in 1..Len(rows) :
          /\ rows[a].end_page < rows[b].end_page
          /\ rows[b].end_page < event_page[1]
    /\ db.tables_processed = Len(rows)

\* ------------------------------------------------------ Phase 1 of a run
\* a page extraction of run r is waiting for a permit or has a call open
ExtractionPending(r) ==
    \E p \in Pages : tasks[r][p] \in {"waiting", "attempt1", "attempt2"}

\* C13: Phase 2 of a run begins only after every extraction task of its
\* Phase 1 has returned: while a page extraction of the run is pending the
\* run is not in Phase 2, and no step inserts a row, logs a merge decision
\* or stores a progress count for it.
C13_Phase2AfterPhase1 ==
    [][\A r \in Runs :
          /\ (InPhase2(r) \/ run_pc[r] = "complete") => ~ExtractionPending(r)
          /\ ExtractionPending(r) =>
                /\ \A n \in 1..Len(rows') : n > Len(rows) => rows'[n].run # r
                /\ \A n \in 1..Len(oracle_log') :
                      n > Len(oracle_log) => oracle_log'[n].run # r
                /\ event_page'[r] = event_page[r]
                /\ pdf_record'[r].tables_processed = pdf_record[r].tables_processed]_vars

\* Phase 2 is at work and has written a row, after the extractions of the
\* three pages of the document have returned
C13_Witness ==
    /\ run_pc[1] = "p2_progress"
    /\ Len(rows) >= 1
    /\ \A p \in 1..3 : tasks[1][p] \in {"done", "done_failed"}
    /\ extracted[1][1].tables # <<>>
    /\ extracted[1][3].tables # <<>>

\* the pages of run r that have an image, hence a task
PagesWithImage(r) == {p \in Pages : tasks[r][p] # "none"}

\* C14: whatever the order in which the extraction tasks return and whichever
\* of them fail, the list Phase 1 returns has exactly one page result for
\* every page with an image, in strictly ascending page number, the pages
\* without a table included, and each entry is what the task of its page
\* returned.
C14_OneResultPerPage ==
    \A r \in Runs :
        (AllTasksDone(r) /\ run_pc[r] # "phase1") =>
            /\ Len(extracted[r]) = Cardinality(PagesWithImage(r))
            /\ \A k \in 1..Len(extracted[r]) :
                  /\ extracted[r][k].page_number \in PagesWithImage(r)
                  /\ extracted[r][k] = results[r][extracted[r][k].page_number]
            /\ \A k \in 1..(Len(extracted[r]) - 1) :
                  extracted[r][k].page_number < extracted[r][k + 1].page_number
            /\ \A p \in PagesWithImage(r) :
                  \E k \in 1..Len(extracted[r]) : extracted[r][k].page_number = p

\* Phase 1 has returned three entries: page 1 failed twice, page 2 has a
\* table, page 3 answered without a table
C14_Witness ==
    /\ Phase1Returned(1)
    /\ tasks[1] = <<"done_failed", "done", "done">>
    /\ Len(extracted[1]) = 3
    /\ extracted[1][1] = EmptyPage(1)
    /\ extracted[1][2].tables # <<>>
    /\ extracted[1][3].page_number = 3
    /\ extracted[1][3].tables = <<>>

\* the least of a non-empty set of numbers
Min(S) == CHOOSE x \in S : \A y \in S : x <= y

\* C15: at every moment of Phase 1 of a run the page extractions that hold
\* a permit (a call open or between its two attempts) are at most
\* min(number of keys, hard cap, page count).
C15_ConcurrencyCap ==
    \A r \in Runs : InFlight(r) <= Min({NumKeys, HardCap, page_count})

\* the cap binds: as many extractions in flight as there are keys while
\* another page waits for a permit
C15_Witness ==
    /\ run_pc[1] = "phase1"
    /\ InFlight(1) = NumKeys
    /\ \E p \in Pages : tasks[1][p] = "waiting"
\* C16: two requests made with the same key are at least request_interval
\* apart: no key serves a second page request while less than the interval
\* has passed since its previous one.
C16_KeyRequestsSpaced == \A k \in Keys : window[k] # "several"

\* the operations of ApiKeyManager whose body runs within "with self._lock"
UnderLock ==
    \/ \E t \in Workers : GetClient(t)
    \/ \E k \in Keys, t \in Workers : ReleaseClient(k, t)
    \/ ForceReleaseAll

\* C17: every mutation of the pool's state (key ownership, worker assignment,
\* round-robin index, per-key last-request time) happens while the pool's lock
\* is held: every step that changes the pool's state is a step of one of the
\* operations that take the lock.
C17_PoolMutatedUnderLock == [][PoolState' # PoolState => UnderLock]_vars

\* every extraction of the call has returned
AllExtractionsReturned == started = page_count /\ InFlightWorkers = 0

\* the worker owns no key
OwnsNothing(t) ==
    /\ thread_assignments[t] = None
    /\ \A k \in Keys : key_owners[k] # t

\* C18: the page extractor releases its key on every exit path: a worker whose
\* extraction call has returned (tables, no response, parse failure or
\* exception) owns no key, and once all extractions have returned every key of
\* the pool is unowned.
C18_KeyReleasedOnEveryPath ==
    /\ \A t \in Workers : worker_pc[t] \in Returned => OwnsNothing(t)
    /\ AllExtractionsReturned => \A k \in Keys : key_owners[k] = None

\* all pages are done within an open scope, the last one ended by an exception
\* after it had acquired a key
C18_Witness ==
    /\ scope = "open"
    /\ AllExtractionsReturned
    /\ \E t \in Workers : worker_pc[t] = "exception"
    /\ \E t \in Workers : worker_pc[t] \in {"no_response", "parse_error", "tables"}
    /\ \A k \in Keys : key_owners[k] = None

\* C19: after force_release_all every key is unowned and no worker has an
\* assignment, and the pool's scope is never left without it: once the scope
\* is closed no key stays owned, whatever the workers were doing when it closed.
C19_ScopeExitFreesAllKeys ==
    scope = "closed" =>
        /\ \A k \in Keys : key_owners[k] = None
        /\ \A t \in Workers : thread_assignments[t] = None

\* the scope was left while a worker was inside its call with a key
C19_Witness ==
    /\ scope = "closed"
    /\ \E t \in Workers : worker_pc[t] = "calling" /\ current_key[t] # None

\* the run has ended and its only storage failure was a Phase 2 insert
EndedAfterOneInsertFailure(r) ==
    /\ run_pc[r] = "done"
    /\ faults = 1
    /\ failed_page[r] # 0

\* fragment f went, by a MERGE decision, into the first table of page q
CarriedInto(r, f, q) ==
    \E n \in 1..Len(oracle_log) :
        /\ oracle_log[n].run = r
        /\ oracle_log[n].merged
        /\ oracle_log[n].next_page = q
        /\ \E a \in 1..Len(oracle_log[n].table1) : oracle_log[n].table1[a] = f

\* C20: a storage failure on one row insert in Phase 2 does not abort the
\* run. No step of a run takes away or changes a row written before; and when
\* the run has ended with that insert as its only storage failure, the
\* document is COMPLETED, every table of every later page is in exactly one
\* row, and every table of an earlier page is in exactly one row unless it had
\* been merged into the first table of the failing page: what is lost is
\* confined to the tables handled while the failing page was processed.
C20_InsertFailureIsContained ==
    [][/\ Len(rows') >= Len(rows)
       /\ SubSeq(rows', 1, Len(rows)) = rows
       /\ \A r \in Runs :
             EndedAfterOneInsertFailure(r)' =>
                 /\ db'.processing_status = "completed"
                 /\ \A f \in Fragments(r)' :
                       /\ f[1] > failed_page'[r] => Cardinality(RowsWith(f)') = 1
                       /\ f[1] < failed_page'[r] =>
                             \/ Cardinality(RowsWith(f)') = 1
                             \/ CarriedInto(r, f, failed_page[r])']_vars

\* the run ended COMPLETED after the insert of a table of page 1 raised, with
\* a row written before the failure and a row of a later page
C20_Witness ==
    \E r \in Runs :
        /\ EndedAfterOneInsertFailure(r)
        /\ db.processing_status = "completed"
        /\ \E n \in 1..Len(rows) : rows[n].end_page < failed_page[r]
        /\ \E n \in 1..Len(rows) : rows[n].start_page > failed_page[r]

\* C21: the pipeline only appends rows: no step updates or deletes a row that
\* was already written, and the step that stores FAILED changes only the
\* status and the error message of the document, the persisted
\* tables_processed counter and every other field staying as they were.
C21_PipelineOnlyAppends ==
    [][/\ Len(rows') >= Len(rows)
       /\ SubSeq(rows', 1, Len(rows)) = rows
       /\ (db'.processing_status = "failed" /\ db.processing_status # "failed") =>
             db' = [db EXCEPT !.processing_status = "failed",
                              !.background_error = db'.background_error]]_vars

\* C22: the status stays BACKGROUND_PROCESSING through both phases, and the
\* two counters are updated together: every document a poller can read while
\* the status is BACKGROUND_PROCESSING has tables_processed <= total_tables_found.
C22_CountersUpdatedLive ==
    /\ \A r \in Runs :
          (run_pc[r] = "phase1" \/ InPhase2(r)) =>
              db.processing_status = "background_processing"
    /\ db.processing_status = "background_processing" =>
          db.tables_processed <= db.total_tables_found

\* key k is handed to a worker by this step
Handed(k) == key_owners'[k] # None /\ key_owners'[k] # key_owners[k]

SomeKeyUnowned == \E k \in Keys : key_owners[k] = None

\* k is a key with the oldest last-request time
IsOldest(k) == \A j \in Keys : last_request_time[k] <= last_request_time[j]

\* even the oldest key was used within the minimum interval
AllUsedRecently ==
    \A k \in Keys : clock - last_request_time[k] < RequestInterval

\* C23: key selection in get_client follows the priority: while some key is
\* unowned the worker is handed an unowned key; only when none is unowned, a
\* key with the oldest last-request time; only when even that key was used
\* within the minimum interval, the key at the round-robin index, which then
\* advances by one modulo the number of keys and in no other case.
C23_SelectionPriority ==
    [][\A k \in Keys :
          Handed(k) =>
              /\ SomeKeyUnowned =>
                    key_owners[k] = None /\ next_key_index' = next_key_index
              /\ (~SomeKeyUnowned /\ ~AllUsedRecently) =>
                    IsOldest(k) /\ next_key_index' = next_key_index
              /\ (~SomeKeyUnowned /\ AllUsedRecently) =>
                    /\ k = (next_key_index % NumKeys) + 1
                    /\ next_key_index' = (next_key_index + 1) % NumKeys]_vars

\* every key is owned and was used within the interval, and the round-robin
\* index has advanced: a selection by round-robin has taken place
C23_Witness ==
    /\ \A k \in Keys : key_owners[k] # None
    /\ AllUsedRecently
    /\ next_key_index # 0

\* C24: a document's processing state has a single writer while a run is
\* active: whatever the interleaving of the upload's background launch, the
\* force_table_extraction requests and the steps of the pipeline, at most one
\* run of the document is active at a time.
C24_SingleActiveRun == Cardinality({r \in Runs : RunActive(r)}) <= 1

\* the data rows of a table content as _create_table_from_content counts
\* them: the lines with '|' and without '---', but for the first, the header
DataRows(content) ==
    LET pipeRows == SelectSeq(content, LAMBDA l : HasPipe(l) /\ ~HasDash3(l))
    IN IF pipeRows = <<>> THEN <<>> ELSE Tail(pipeRows)

\* C25: the structural merge of tables A and B on page pageOfA yields a table
\* whose content is A's lines unchanged followed by exactly B's data rows in
\* order (B without its header line and its separator line), whose row_count
\* is A.row_count + B.row_count, whose title, headers, column count and
\* ordinal are A's, and whose merge-origin page is A's if A has one and
\* pageOfA otherwise.
C25_StructuralMerge ==
    [][\A r \in Runs :
          (/\ Len(oracle_log') > Len(oracle_log)
           /\ Last(oracle_log').run = r
           /\ Last(oracle_log').merged) =>
              LET i == loop_i[r]
                  A == Last(page_responses[r][i].tables)
                  B == page_responses[r][i + 1].tables[1]
                  merged_table == page_responses'[r][i + 1].tables[1]
                  pageOfA == page_responses[r][i].page_number
              IN /\ merged_table.markdown_content =
                        A.markdown_content \o DataRows(B.markdown_content)
                 /\ merged_table.row_count = A.row_count + B.row_count
                 /\ merged_table.title = A.title
                 /\ merged_table.column_headers = A.column_headers
                 /\ merged_table.column_count = A.column_count
                 /\ merged_table.table_id = A.table_id
                 /\ merged_table.merge_start_page =
                        IF A.merge_start_page # None THEN A.merge_start_page
                        ELSE pageOfA]_vars

Terminal == db.processing_status \in {"completed", "failed"}

\* C26: every run on an existing document eventually reaches a terminal
\* status, COMPLETED or FAILED, when every external call returns, raises or
\* times out and the status writes succeed: the document never stays in
\* BACKGROUND_PROCESSING forever.
C26_RunReachesTerminalStatus ==
    (\E r \in Runs : run_pc[r] = "launched")
        ~> ((\A r \in Runs : run_pc[r] \in {"idle", "done"}) /\ Terminal)

\* a run has ended COMPLETED although both attempts of a page's extraction
\* call failed and an insert raised
C26_Witness ==
    \E r \in Runs :
        /\ run_pc[r] = "done"
        /\ db.processing_status = "completed"
        /\ \E p \in Pages : tasks[r][p] = "done_failed"
        /\ failed_page[r] # 0

\* the rows run r has inserted so far
RowsOf(r) == Cardinality({n \in 1..Len(rows) : rows[n].run = r})

\* C27: after each page is processed in Phase 2 the persisted
\* tables_processed equals the number of rows the run has inserted so far
\* (unless the progress save itself raised), and the persisted counter never
\* exceeds the number of rows actually inserted.
C27_CounterFollowsRows ==
    [][\A r \in Runs :
          /\ RunActive(r)' => db'.tables_processed <= RowsOf(r)'
          /\ (/\ InPhase2(r)
              /\ loop_i'[r] > loop_i[r]
              /\ ~(run_pc[r] = "p2_progress" /\ faults' > faults)) =>
                db'.tables_processed = RowsOf(r)']_vars


\* the pages of run r whose call of the external model is in flight
CallsInFlight(r) == {p \in Pages : tasks[r][p] \in {"attempt1", "attempt2"}}

\* C28: during phase 1 no two calls of the external model that are in flight
\* at the same time were sent with the client of the same key
C28_InFlightCallsUseDistinctClients ==
    \A r \in Runs : \A p, q \in CallsInFlight(r) :
        p # q => task_client[r][p] # task_client[r][q]


\* C29: the two ownership maps of the pool agree: worker t is assigned key k
\* exactly when the owner of k is t, and get_stats reports as many assigned
\* keys as active threads, with assigned and available keys adding up to
\* the total
C29_OwnershipMapsConsistent ==
    /\ \A t \in Workers : \A k \in Keys :
          thread_assignments[t] = k <=> key_owners[k] = t
    /\ get_stats.assigned_keys = get_stats.active_threads
    /\ get_stats.assigned_keys + get_stats.available_keys = get_stats.total_keys

\* a key was handed over: its previous owner still works with it and has lost
\* the assignment, the new owner holds both entries
C29_Witness ==
    \E t \in Workers : \E k \in Keys :
        /\ current_key[t] = k
        /\ thread_assignments[t] = None
        /\ key_owners[k] \notin {None, t}
        /\ thread_assignments[key_owners[k]] = k


\* the number of candidate tables of a page list
RECURSIVE CountTables(_)
CountTables(resps) ==
    IF resps = <<>> THEN 0
    ELSE Len(Head(resps).tables) + CountTables(Tail(resps))

\* the decisions of the merge oracle that ended in a merge
MergeDecisions == {k \in 1..Len(oracle_log) : oracle_log[k].merged}

\* how often fragment f occurs in row n
Occurrences(n, f) ==
    Cardinality({a \in 1..Len(rows[n].parts) : rows[n].parts[a] = f})

\* C30: when no write fails, a finished Phase 2 has neither lost nor
\* duplicated a candidate table: every candidate of Phase 1 is part of
\* exactly one row, once; there are as many rows as candidates less the
\* merges decided; and the row counts of the rows add up to the row counts
\* of the candidates
C30_CandidatesConserved ==
    (run_pc[1] = "complete" /\ faults = 0) =>
        /\ \A f \in Fragments(1) :
              /\ Cardinality(RowsWith(f)) = 1
              /\ \A n \in RowsWith(f) : Occurrences(n, f) = 1
        /\ \A n \in 1..Len(rows) : \A a \in 1..Len(rows[n].parts) :
              rows[n].parts[a] \in Fragments(1)
        /\ Len(rows) = CountTables(extracted[1]) - Cardinality(MergeDecisions)
        /\ SumRowCounts(rows) = SumPages(extracted[1])

\* a finished run without a failed write that merged at one page boundary
\* and kept the tables apart at another
C30_Witness ==
    /\ run_pc[1] = "complete"
    /\ faults = 0
    /\ MergeDecisions # {}
    /\ \E k \in 1..Len(oracle_log) : ~oracle_log[k].merged
    /\ CountTables(extracted[1]) >= 3
    /\ Len(rows) = CountTables(extracted[1]) - Cardinality(MergeDecisions)
    /\ SumPages(extracted[1]) > 0

====
